---- MODULE Spec2Model ----
(***************************************************************************)
(* A model of src/f5_agent.py: the background poller                      *)
(* (F5Agent.monitor_f5_background), the store it writes                    *)
(* (current_logs, current_pool_members, last_pool_states, monitoring) and  *)
(* the console (F5Agent.interactive_mode and the show_* views) that reads  *)
(* the store concurrently from the main thread.                            *)
(*                                                                         *)
(* Strings the code computes with (names, keys, command lines) are tuples  *)
(* of one-character strings, so that lower(), strip(), startswith(),       *)
(* slicing and the f-string that builds a key are computed, not assumed.   *)
(* The member fields session, address and connectionLimit are copied       *)
(* verbatim by the code and only ever printed; they are left out.          *)
(***************************************************************************)
EXTENDS Integers, Sequences, FiniteSets, TLC

\* ------------------------------------------------------------------ bounds
\* pools in one reply of /ltm/pool
MaxPools == 2
\* pools in one reply of /ltm/pool of a remote that holds few pools
FewPools == 1

\* ------------------------------------------------------------- the remote
\* Names the remote can report.  One pool name holds an upper-case letter.
PoolNames == {<<"A">>, <<"b">>}
MemberNames == {<<"m">>}
\* A JSON field that is missing from a record.
Absent == <<"<", "a", "b", "s", "e", "n", "t", ">">>
Up == <<"u", "p">>
Down == <<"d", "o", "w", "n">>
Unknown == <<"u", "n", "k", "n", "o", "w", "n">>
\* The state field of a remote member record: up, down, or missing.
RemoteStates == {Up, Down, Absent}

SeqsUpTo(S, n) == UNION {[1..k -> S] : k \in 0..n}

\* dict.get(key, default) on a field of a remote record
Get(field, default) == IF field = Absent THEN default ELSE field

\* A remote member record, and the replies of the members endpoint of one
\* pool: a request failure, or the items.  The remote keeps member names
\* unique inside one pool; pool names repeat (one name in two partitions).
RemoteMembers == [name : MemberNames, state : RemoteStates]
MemberLists ==
    {s \in SeqsUpTo(RemoteMembers, Cardinality(MemberNames)) :
        \A i, j \in 1..Len(s) : s[i].name = s[j].name => i = j}
MembersReplies ==
    {[ok |-> FALSE, items |-> <<>>]}
        \cup {[ok |-> TRUE, items |-> s] : s \in MemberLists}
\* A remote pool with the reply its members endpoint gives in this cycle.
RemotePools == [name : PoolNames, members : MembersReplies]
\* The replies of the pool list endpoint: a request failure ("fail"), an
\* exception that is no RequestException ("raise"), or the pools.
PoolReplies ==
    {[kind |-> "fail", pools |-> <<>>], [kind |-> "raise", pools |-> <<>>]}
        \cup {[kind |-> "ok", pools |-> p] : p \in SeqsUpTo(RemotePools, MaxPools)}

\* The replies of /sys/log: the value of "entries" (a count of entries; 0 is
\* the empty dict), a request failure, or another exception.
LogReplies ==
    {[kind |-> "fail", entries |-> 0], [kind |-> "raise", entries |-> 0]}
        \cup {[kind |-> "ok", entries |-> n] : n \in {0, 1}}

\* The replies of a remote that holds few pools, without the exceptions.
FewPoolReplies ==
    {[kind |-> "fail", pools |-> <<>>]}
        \cup {[kind |-> "ok", pools |-> p] : p \in SeqsUpTo(RemotePools, FewPools)}
FewLogReplies == {r \in LogReplies : r.kind # "raise"}

\* Every outcome of the pool fetch on a remote that holds few pools.
CyclePoolReplies ==
    {r \in PoolReplies : Len(r.pools) <= FewPools}

\* Optional[...]: None, or a value.
None == [some |-> FALSE]
Some(v) == [some |-> TRUE, v |-> v]

\* --------------------------------------------------------------- fetching
\* get_system_logs: the entries, or None on a request failure.
get_system_logs(reply) ==
    IF reply.kind = "ok" THEN Some(reply.entries) ELSE None

\* The records get_pool_members appends for one pool (lines 95-103); a pool
\* whose members request failed appends nothing (lines 105-106).
MemberRecords(pool_name, items) ==
    [i \in 1..Len(items) |->
        [pool |-> pool_name,
         member |-> Get(items[i].name, Unknown),
         state |-> Get(items[i].state, Unknown)]]

PoolRecords(pool) ==
    IF pool.members.ok
    THEN MemberRecords(Get(pool.name, Unknown), pool.members.items)
    ELSE <<>>

RECURSIVE PoolInfo(_)
PoolInfo(pools) ==
    IF pools = <<>> THEN <<>>
    ELSE PoolRecords(Head(pools)) \o PoolInfo(Tail(pools))

\* get_pool_members giving up when the members request of a pool fails.
get_pool_members_AllOrNothing(reply) ==
    IF reply.kind = "ok"
         /\ \A i \in 1..Len(reply.pools) : reply.pools[i].members.ok
    THEN Some(PoolInfo(reply.pools))
    ELSE None

\* get_pool_members: None when the pool list request failed, else pool_info.
get_pool_members(reply) ==
    IF reply.kind = "ok" THEN Some(PoolInfo(reply.pools)) ELSE None

\* Python truthiness of an Optional list / dict: None and empty are false.
TruthyList(opt) == opt.some /\ opt.v # <<>>
TruthyLogs(opt) == opt.some /\ opt.v # 0

\* ------------------------------------------------------------------- diff
\* key = f"{member['pool']}/{member['member']}"
Key(member) == member.pool \o <<"/">> \o member.member

\* Record as dict.setdefault would do it: a key already known keeps its state.
Record_KeepFirst(last, key, state) ==
    [k \in (DOMAIN last) \cup {key} |-> IF k \in DOMAIN last THEN last[k] ELSE state]

\* The keys of a member list.
KeysOf(members) == {Key(members[i]) : i \in 1..Len(members)}

\* Record into a map that keeps nothing but the key written last.
Record_Forgetting(last, key, state) == [k \in {key} |-> state]

\* self.last_pool_states[key] = current_state
Record(last, key, state) ==
    [k \in (DOMAIN last) \cup {key} |-> IF k = key THEN state ELSE last[k]]

\* The event line 160 prints for one member, if any.
StateChange(last, member) ==
    IF Key(member) \in DOMAIN last /\ last[Key(member)] # member.state
    THEN <<[key |-> Key(member), old |-> last[Key(member)], new |-> member.state]>>
    ELSE <<>>

\* The loop of lines 154-163 over the fetched list, from index i on.
RECURSIVE CheckStateChanges(_, _, _, _)
CheckStateChanges(members, i, last, printed) ==
    IF i > Len(members) THEN [last |-> last, printed |-> printed]
    ELSE CheckStateChanges(members, i + 1,
                           Record(last, Key(members[i]), members[i].state),
                           printed \o StateChange(last, members[i]))

\* ---------------------------------------------------------- command lines
UpperCase == <<"A", "B", "C", "D", "E", "F", "G", "H", "I", "J", "K", "L", "M",
               "N", "O", "P", "Q", "R", "S", "T", "U", "V", "W", "X", "Y", "Z">>
LowerCase == <<"a", "b", "c", "d", "e", "f", "g", "h", "i", "j", "k", "l", "m",
               "n", "o", "p", "q", "r", "s", "t", "u", "v", "w", "x", "y", "z">>
Whitespace == {" ", "\t"}

\* str.lower()
LowerChar(c) ==
    IF \E i \in 1..Len(UpperCase) : UpperCase[i] = c
    THEN LowerCase[CHOOSE i \in 1..Len(UpperCase) : UpperCase[i] = c]
    ELSE c
RECURSIVE Lower(_)
Lower(s) ==
    IF s = <<>> THEN <<>> ELSE <<LowerChar(Head(s))>> \o Lower(Tail(s))

\* str.strip()
RECURSIVE LStrip(_)
LStrip(s) == IF s # <<>> /\ Head(s) \in Whitespace THEN LStrip(Tail(s)) ELSE s
RECURSIVE RStrip(_)
RStrip(s) ==
    IF s # <<>> /\ s[Len(s)] \in Whitespace
    THEN RStrip(SubSeq(s, 1, Len(s) - 1))
    ELSE s
Strip(s) == RStrip(LStrip(s))

\* str.startswith(prefix)
StartsWith(s, prefix) ==
    Len(s) >= Len(prefix) /\ SubSeq(s, 1, Len(prefix)) = prefix

\* line 190: command = input("> ").strip().lower()
Command(typed) == Lower(Strip(typed))

Quit == <<"q", "u", "i", "t">>
Exit == <<"e", "x", "i", "t">>
Help == <<"h", "e", "l", "p">>
Status == <<"s", "t", "a", "t", "u", "s">>
Pools == <<"p", "o", "o", "l", "s">>
Virtual == <<"v", "i", "r", "t", "u", "a", "l">>
Virtuals == Virtual \o <<"s">>
PoolPrefix == <<"p", "o", "o", "l", " ">>
Logs == <<"l", "o", "g", "s">>
Summary == <<"s", "u", "m", "m", "a", "r", "y">>

\* line 205: pool_name = command[5:]
PoolArg(command) == SubSeq(command, Len(PoolPrefix) + 1, Len(command))

\* What the user types to see pool `name`, as show_help documents it.
PoolLine(name) == PoolPrefix \o name

\* The lines the user types: every command, a pool command for each name the
\* remote can report and for one it never reports, an upper-case and a
\* padded spelling, and input that is no command.
TypedLines ==
    {Quit, Exit, Help, Status, Pools, Virtual, Virtuals, Logs, Summary}
        \cup {PoolLine(n) : n \in PoolNames \cup {<<"z">>}}
        \cup {<<"Q", "u", "i", "t">>, <<" ">> \o Logs \o <<" ">>,
              <<"p", "o", "o", "l">>, <<"f", "o", "o">>, <<>>}

\* The lines that read nothing of the store.
ControlLines == {Quit, Exit, Help}

\* ------------------------------------------------------------------ views
\* len([m for m in members if m['state'] == state])
CountState(members, state) ==
    Cardinality({i \in 1..Len(members) : members[i].state = state})

\* [m for m in members if m['pool'] == pool_name]
MembersOf(members, pool_name) ==
    SelectSeq(members, LAMBDA m : m.pool = pool_name)

\* The replies of /ltm/virtual that get_virtual_servers handles: a request
\* failure (None), or the virtual servers (here: their enabled flags).
VirtualReplies ==
    {None} \cup {Some(v) : v \in {<<>>, <<TRUE>>, <<TRUE, FALSE>>}}

NoOut == [kind |-> "none"]
Raised(what) == [kind |-> "raised", what |-> what]

\* show_help
show_help == [kind |-> "help"]

\* show_pool_details taking the pool's first member before it looks whether
\* there is one: IndexError on a pool without members.
show_pool_details_Unchecked(members, pool_name) ==
    IF MembersOf(members, pool_name) = <<>>
    THEN Raised("IndexError")
    ELSE [kind |-> "pool_details", pool |-> pool_name,
          members |-> MembersOf(members, pool_name)]

\* show_pool_details: one read of current_pool_members (line 276)
show_pool_details(members, pool_name) ==
    IF MembersOf(members, pool_name) = <<>>
    THEN [kind |-> "not_found", pool |-> pool_name]
    ELSE [kind |-> "pool_details", pool |-> pool_name,
          members |-> MembersOf(members, pool_name)]

\* The pool names of a list in order of first appearance (the insertion
\* order of the dict `pools`, lines 256-261).
RECURSIVE PoolOrder(_, _)
PoolOrder(members, found) ==
    IF members = <<>> THEN found
    ELSE PoolOrder(Tail(members),
                   IF \E i \in 1..Len(found) : found[i] = Head(members).pool
                   THEN found
                   ELSE Append(found, Head(members).pool))

\* show_pools, lines 256-271, on the list read at line 257
PoolGroups(members) ==
    LET order == PoolOrder(members, <<>>)
    IN [kind |-> "pools",
        groups |-> [i \in 1..Len(order) |->
                      [pool |-> order[i],
                       up_count |-> CountState(MembersOf(members, order[i]), Up),
                       total_count |-> Len(MembersOf(members, order[i])),
                       members |-> MembersOf(members, order[i])]]]

\* show_virtual_servers, on the reply of get_virtual_servers
show_virtual_servers(virtuals) ==
    IF ~(virtuals.some /\ virtuals.v # <<>>)
    THEN [kind |-> "no_virtuals"]
    ELSE [kind |-> "virtuals", servers |-> virtuals.v]

\* x / y * 100 printed with :.1f, in tenths of a percent (round half to
\* even).
PercentTenths(x, y) ==
    LET q == (1000 * x) \div y
        r == (1000 * x) % y
    IN IF 2 * r > y \/ (2 * r = y /\ q % 2 = 1) THEN q + 1 ELSE q

\* lines 337-341: the virtual server line of the summary
VirtualLine(virtuals) ==
    IF virtuals.some /\ virtuals.v # <<>>
    THEN [shown |-> TRUE,
          enabled_vs |-> Cardinality({i \in 1..Len(virtuals.v) : virtuals.v[i]}),
          total_vs |-> Len(virtuals.v)]
    ELSE [shown |-> FALSE, enabled_vs |-> 0, total_vs |-> 0]

\* The names show_summary lists under "Members DOWN" (lines 333-335)
DownKeys(members) ==
    LET down == SelectSeq(members, LAMBDA m : m.state = Down)
    IN [i \in 1..Len(down) |-> Key(down[i])]

\* The locals of show_status and show_summary; `shown` says that the block
\* under line 321 was entered.
NoLocals == [shown |-> FALSE, total_members |-> 0, up_members |-> 0,
             down_members |-> 0, listed |-> <<>>]

\* line 326
health_percentage(up_members, total_members) ==
    IF total_members > 0 THEN PercentTenths(up_members, total_members) ELSE 0

\* What show_summary prints from its locals and the virtual server reply.
show_summary(l, virtuals) ==
    [kind |-> "summary", members |-> l.shown,
     health |-> IF l.shown
                THEN health_percentage(l.up_members, l.total_members)
                ELSE 0,
     up_members |-> l.up_members, total_members |-> l.total_members,
     down_members |-> l.down_members, listed |-> l.listed,
     virtuals |-> VirtualLine(virtuals)]

\* ------------------------------------------------------------------ state
VARIABLES
    monitoring,            \* self.monitoring
    last_pool_states,      \* self.last_pool_states
    current_pool_members,  \* self.current_pool_members
    current_logs,          \* self.current_logs (the number of entries held)
    ppc,                   \* where the poller thread is
    pool_members,          \* the poller's local pool_members (line 149)
    events,                \* the STATE CHANGE lines the last diff printed
    cpc,                   \* where the console (main thread) is
    typed,                 \* the line input() returned last (none when it
                           \* raised instead)
    loc,                   \* the locals of the view being rendered
    out,                   \* what the last command printed
    token,                 \* self.token
    pool_reply,            \* history: what the remote replied to the member
                           \* fetch of the running cycle
    prev_keys,             \* history: the keys the member fetch of the
                           \* immediately preceding cycle returned (none
                           \* when it failed or was not reached)
    start_logs,            \* history: current_logs when the cycle began
    origin                 \* history: how the cycles that published the two
                           \* visible fields compare: "same" (one cycle, or
                           \* both from __init__), "logs_now" (the logs are
                           \* of the running cycle, the members older),
                           \* "logs_later", "members_later"

vars == <<monitoring, last_pool_states, current_pool_members, current_logs,
          ppc, pool_members, events, cpc, typed, loc, out, token,
          prev_keys, pool_reply, start_logs, origin>>

store == <<last_pool_states, current_pool_members, current_logs>>
poller_vars ==
    <<ppc, pool_members, events, prev_keys, pool_reply, start_logs, origin>>
console_vars == <<cpc, typed, loc, out, token>>

NoStates == [k \in {} |-> Up]
NoReply == [kind |-> "none", pools |-> <<>>]

\* __init__ (lines 22-25); neither thread has started
Init ==
    /\ monitoring = FALSE
    /\ last_pool_states = NoStates
    /\ current_pool_members = <<>>
    /\ current_logs = 0
    /\ ppc = "idle"
    /\ pool_members = None
    /\ events = <<>>
    /\ cpc = "init"
    /\ typed = <<>>
    /\ loc = NoLocals
    /\ out = NoOut
    /\ token = None
    /\ prev_keys = {}
    /\ pool_reply = NoReply
    /\ start_logs = 0
    /\ origin = "same"

\* ----------------------------------------------------------------- poller
\* The poller is a daemon thread (line 185): it runs until the process exits.
Running == cpc # "exited"

\* line 141: while self.monitoring
PollCheck ==
    /\ Running /\ ppc = "check"
    /\ ppc' = IF monitoring THEN "logs" ELSE "done"
    /\ events' = <<>>
    /\ start_logs' = current_logs
    /\ origin' = IF origin = "logs_now" THEN "logs_later" ELSE origin
    /\ UNCHANGED <<monitoring, store, pool_members, prev_keys, pool_reply,
                   console_vars>>

\* The log fetch without the try of line 142: an exception ends the thread.
FetchLogs_Uncaught(reply) ==
    /\ cpc # "exited" /\ ppc = "logs"
    /\ IF reply.kind = "raise"
       THEN /\ ppc' = "done"
            /\ UNCHANGED <<current_logs, origin>>
       ELSE /\ ppc' = "members"
            /\ IF TruthyLogs(get_system_logs(reply))
               THEN /\ current_logs' = get_system_logs(reply).v
                    /\ origin' = "logs_now"
               ELSE UNCHANGED <<current_logs, origin>>
    /\ UNCHANGED <<monitoring, last_pool_states, current_pool_members,
                   pool_members, events, prev_keys, pool_reply, start_logs,
                   cpc, typed,
                   loc, out, token>>

\* lines 144-146: the log fetch returns; a non-empty reply is published
FetchLogs(reply) ==
    /\ Running /\ ppc = "logs"
    /\ IF reply.kind = "raise"
       THEN /\ ppc' = "sleep_err"
            /\ UNCHANGED <<current_logs, origin>>
       ELSE /\ ppc' = "members"
            /\ IF TruthyLogs(get_system_logs(reply))
               THEN /\ current_logs' = get_system_logs(reply).v
                    /\ origin' = "logs_now"
               ELSE UNCHANGED <<current_logs, origin>>
    /\ UNCHANGED <<monitoring, last_pool_states, current_pool_members,
                   pool_members, events, prev_keys, pool_reply, start_logs,
                   console_vars>>

\* lines 149-151: the member fetch returns; a non-empty list is published
FetchMembers(reply) ==
    /\ Running /\ ppc = "members"
    /\ pool_reply' = reply
    /\ IF reply.kind = "raise"
       THEN /\ ppc' = "sleep_err"
            /\ UNCHANGED <<pool_members, current_pool_members, origin>>
       ELSE /\ pool_members' = get_pool_members(reply)
            /\ IF TruthyList(pool_members')
               THEN /\ current_pool_members' = pool_members'.v
                    /\ origin' = IF origin = "logs_now" THEN "same"
                                  ELSE "members_later"
                    /\ ppc' = "diff"
               ELSE /\ UNCHANGED <<current_pool_members, origin>>
                    /\ ppc' = "sleep"
    /\ UNCHANGED <<monitoring, last_pool_states, current_logs, events,
                   prev_keys, start_logs, console_vars>>

\* lines 154-163: the diff against last_pool_states
Diff ==
    /\ Running /\ ppc = "diff"
    /\ LET r == CheckStateChanges(pool_members.v, 1, last_pool_states, <<>>)
       IN /\ last_pool_states' = r.last
          /\ events' = r.printed
    /\ ppc' = "sleep"
    /\ UNCHANGED <<monitoring, current_pool_members, current_logs,
                   pool_members, prev_keys, pool_reply, start_logs, origin,
                   console_vars>>

\* lines 165 and 170: time.sleep(interval) returns
Wake ==
    /\ Running /\ ppc \in {"sleep", "sleep_err"}
    /\ ppc' = "check"
    /\ prev_keys' = IF ppc = "sleep" /\ pool_members.some
                    THEN KeysOf(pool_members.v)
                    ELSE {}
    /\ pool_reply' = NoReply
    /\ UNCHANGED <<monitoring, store, pool_members, events, start_logs,
                   origin, console_vars>>

\* The poller thread, with the replies the remote may give
Poller(log_replies, pool_replies) ==
    \/ PollCheck
    \/ \E reply \in log_replies : FetchLogs(reply)
    \/ \E reply \in pool_replies : FetchMembers(reply)
    \/ Diff
    \/ Wake

\* ---------------------------------------------------------------- console
\* The replies of the login request: a request failure, or a reply whose
\* token.token is absent (None), the empty string, or a token.
AuthReplies ==
    {[kind |-> "fail", token |-> None]}
        \cup {[kind |-> "ok", token |-> t] :
                 t \in {None, Some(<<>>), Some(<<"t">>)}}

\* if self.token (line 44): None and the empty string are false
TruthyToken(t) == t.some /\ t.v # <<>>

\* authenticate taking every reply for a login.
authenticate_AnyReply(reply) ==
    [result |-> reply.kind = "ok", token |-> reply.token]

\* authenticate: what it returns, and self.token afterwards (on a request
\* failure line 42 is not reached and self.token stays None)
authenticate(reply) ==
    IF reply.kind = "fail"
    THEN [result |-> FALSE, token |-> None]
    ELSE [result |-> TruthyToken(reply.token), token |-> reply.token]

\* lines 179-186: authenticate, then start the poller thread
Start(reply) ==
    /\ cpc = "init"
    /\ token' = authenticate(reply).token
    /\ IF authenticate(reply).result
       THEN /\ monitoring' = TRUE
            /\ ppc' = "check"
            /\ cpc' = "loop"
       ELSE /\ cpc' = "done"
            /\ UNCHANGED <<monitoring, ppc>>
    /\ UNCHANGED <<store, pool_members, events, prev_keys, pool_reply,
                   start_logs,
                   origin, typed, loc, out>>

\* The console positions inside the try block of lines 189-212.
InTry == {"loop", "status_243", "status_244", "status_245", "pools_257",
          "virtual_293", "logs_314", "summary_322", "summary_323",
          "summary_324", "summary_333", "summary_337"}

\* A view has printed `o` and returns to the prompt; an exception that is
\* neither KeyboardInterrupt nor EOFError leaves interactive_mode.
Finish(o) ==
    /\ out' = o
    /\ loc' = NoLocals
    /\ cpc' = IF o.kind = "raised" THEN "crashed" ELSE "loop"

\* The view goes on at position `at` with locals `l`.
Goto(at, l) ==
    /\ cpc' = at
    /\ loc' = l
    /\ out' = NoOut

\* Leaving the loop with a bare break: the stop flag stays as it is.
Goodbye_FlagKept ==
    /\ UNCHANGED monitoring
    /\ out' = [kind |-> "goodbye"]
    /\ loc' = NoLocals
    /\ cpc' = "done"

\* lines 193-195, 215-217, 219-221: set the stop flag and leave the loop
Goodbye ==
    /\ monitoring' = FALSE
    /\ out' = [kind |-> "goodbye"]
    /\ loc' = NoLocals
    /\ cpc' = "done"

\* lines 190-212: input() returns a line and the command is dispatched, up
\* to the first read of the store the chosen view makes
ReadLine(l) ==
    /\ cpc = "loop"
    /\ typed' = l
    /\ \E command \in {Command(l)} :
          IF command = Quit \/ command = Exit THEN Goodbye
          ELSE /\ UNCHANGED monitoring
               /\ IF command = Help THEN Finish(show_help)
                  ELSE IF command = Status
                  THEN \* line 242
                       IF current_pool_members # <<>>
                       THEN Goto("status_243", NoLocals)
                       ELSE Finish([kind |-> "status", members |-> FALSE,
                                    total_members |-> 0, up_members |-> 0,
                                    down_members |-> 0])
                  ELSE IF command = Pools
                  THEN \* line 252
                       IF current_pool_members = <<>>
                       THEN Finish([kind |-> "no_pool_data"])
                       ELSE Goto("pools_257", NoLocals)
                  ELSE IF command = Virtual \/ command = Virtuals
                  THEN Goto("virtual_293", NoLocals)
                  ELSE IF StartsWith(command, PoolPrefix)
                  THEN Finish(show_pool_details(current_pool_members,
                                                PoolArg(command)))
                  ELSE IF command = Logs
                  THEN \* line 309
                       IF current_logs = 0
                       THEN Finish([kind |-> "no_log_data"])
                       ELSE Goto("logs_314", NoLocals)
                  ELSE IF command = Summary
                  THEN \* line 321
                       IF current_pool_members # <<>>
                       THEN Goto("summary_322", [NoLocals EXCEPT !.shown = TRUE])
                       ELSE Goto("summary_337", NoLocals)
                  ELSE Finish([kind |-> "unknown"])
    /\ UNCHANGED <<store, poller_vars, token>>

\* One more statement of a view that reads the store.
ViewStep ==
    /\ UNCHANGED <<monitoring, store, poller_vars, typed, token>>
    /\ \/ /\ cpc = "status_243"
          /\ Goto("status_244",
                  [loc EXCEPT !.total_members = Len(current_pool_members)])
       \/ /\ cpc = "status_244"
          /\ Goto("status_245",
                  [loc EXCEPT !.up_members = CountState(current_pool_members, Up)])
       \/ /\ cpc = "status_245"
          /\ Finish([kind |-> "status", members |-> TRUE,
                     total_members |-> loc.total_members,
                     up_members |-> loc.up_members,
                     down_members |-> CountState(current_pool_members, Down)])
       \/ /\ cpc = "pools_257"
          /\ Finish(PoolGroups(current_pool_members))
       \/ /\ cpc = "logs_314"
          /\ Finish([kind |-> "logs", found |-> current_logs])
       \/ /\ cpc = "summary_322"
          /\ Goto("summary_323",
                  [loc EXCEPT !.total_members = Len(current_pool_members)])
       \/ /\ cpc = "summary_323"
          /\ Goto("summary_324",
                  [loc EXCEPT !.up_members = CountState(current_pool_members, Up)])
       \/ /\ cpc = "summary_324"
          /\ LET down == CountState(current_pool_members, Down)
             IN Goto(IF down > 0 THEN "summary_333" ELSE "summary_337",
                     [loc EXCEPT !.down_members = down])
       \/ /\ cpc = "summary_333"
          /\ Goto("summary_337",
                  [loc EXCEPT !.listed = DownKeys(current_pool_members)])

\* lines 293-305: get_virtual_servers returns to show_virtual_servers
VirtualDone(reply) ==
    /\ cpc = "virtual_293"
    /\ Finish(show_virtual_servers(reply))
    /\ UNCHANGED <<monitoring, store, poller_vars, typed, token>>

\* lines 337-344: get_virtual_servers returns to show_summary, which prints
SummaryDone(reply) ==
    /\ cpc = "summary_337"
    /\ Finish(show_summary(loc, reply))
    /\ UNCHANGED <<monitoring, store, poller_vars, typed, token>>

\* Leaving on EOFError with the visible data wiped.
EndOfInput_Wiping ==
    /\ cpc = "loop"
    /\ Goodbye
    /\ typed' = <<>>
    /\ current_pool_members' = <<>>
    /\ current_logs' = 0
    /\ UNCHANGED <<last_pool_states, poller_vars, token>>

\* lines 218-221: input() raises EOFError
EndOfInput ==
    /\ cpc = "loop"
    /\ Goodbye
    /\ typed' = <<>>
    /\ UNCHANGED <<store, poller_vars, token>>

\* lines 214-217: KeyboardInterrupt anywhere inside the try block
Interrupt ==
    /\ cpc \in InTry
    /\ Goodbye
    /\ typed' = <<>>
    /\ UNCHANGED <<store, poller_vars, token>>

\* lines 346-354: interactive_mode has returned (or raised), main returns
\* and the process exits, which ends the daemon thread wherever it is
ProcessExit ==
    /\ cpc \in {"done", "crashed"}
    /\ cpc' = "exited"
    /\ UNCHANGED <<monitoring, store, poller_vars, typed, loc, out, token>>

\* Starting and leaving the console loop, with the lines the user may type
Control(lines) ==
    \/ \E reply \in AuthReplies : Start(reply)
    \/ \E l \in lines : ReadLine(l)
    \/ EndOfInput
    \/ Interrupt
    \/ ProcessExit

\* The views that take more than one step
Views ==
    \/ ViewStep
    \/ \E reply \in VirtualReplies : VirtualDone(reply)
    \/ \E reply \in VirtualReplies : SummaryDone(reply)

\* The poller under every reply of the remote, with a console that is
\* started, answers commands that read nothing, and is left again.
Next == Poller(LogReplies, PoolReplies) \/ Control(ControlLines)

Spec == Init /\ [][Next]_vars

\* The same with the scheduling of the poller thread: each of its steps (a
\* request with a timeout, a sleep, a statement) ends.
FairNext == Poller(LogReplies, CyclePoolReplies) \/ Control(ControlLines)

FairSpec ==
    /\ Init /\ [][FairNext]_vars
    /\ WF_vars(Poller(LogReplies, CyclePoolReplies))

\* The console with every line, beside a poller whose remote holds few pools.
ConsoleNext == Poller(FewLogReplies, FewPoolReplies) \/ Control(TypedLines) \/ Views

ConsoleSpec == Init /\ [][ConsoleNext]_vars

\* ================================================================ claims
\* The state of the last record of key k in a member list.
LastStateOf(members, k) ==
    members[CHOOSE i \in 1..Len(members) :
                /\ Key(members[i]) = k
                /\ \A j \in (i + 1)..Len(members) : Key(members[j]) # k].state
EventKeys(printed) == {printed[i].key : i \in 1..Len(printed)}

\* The diff of a cycle runs: the step from "diff" to "sleep".
DiffStep == ppc = "diff" /\ ppc' = "sleep"

\* C1: in a cycle, a STATE CHANGE is printed for key K if and only if K had
\* a recorded state before the cycle and a state fetched for K in the cycle
\* differs from it; in particular none is printed for a key that had no
\* recorded state, whatever the fetched list holds.
C1_EventIffKnownAndChanged ==
    [][DiffStep =>
        \A k \in KeysOf(pool_members.v) \cup DOMAIN last_pool_states :
            (k \in EventKeys(events'))
                <=> /\ k \in DOMAIN last_pool_states
                    /\ \E i \in 1..Len(pool_members.v) :
                          /\ Key(pool_members.v[i]) = k
                          /\ pool_members.v[i].state # last_pool_states[k]]_vars

\* C2: when a cycle has completed, last_pool_states holds, for every key of
\* the list fetched in that cycle, the state fetched for it (the state of
\* its last record, should the list hold several for one key).
C2_RecordedIsFetched ==
    (ppc = "sleep" /\ pool_members.some) =>
        \A k \in KeysOf(pool_members.v) :
            /\ k \in DOMAIN last_pool_states
            /\ last_pool_states[k] = LastStateOf(pool_members.v, k)

\* C2's case: a cycle has completed in which a transition was printed, while
\* a key missing from the fetched list keeps a recorded state.
C2_Witness ==
    /\ ppc = "sleep" /\ pool_members.some
    /\ events # <<>>
    /\ DOMAIN last_pool_states # KeysOf(pool_members.v)

\* C3: whenever the console can read the store and finds both members and
\* logs published, the two were published by one and the same cycle.
C3_SnapshotOfOneCycle ==
    (cpc \in InTry /\ current_pool_members # <<>> /\ current_logs # 0)
        => origin = "same"

\* The member fetch of a cycle fails: get_pool_members returns None.
MemberFetchFails == ppc = "members" /\ ppc' = "sleep" /\ ~pool_members'.some

\* C4: a cycle whose member fetch fails leaves the visible members, the
\* visible logs and last_pool_states as they were when the cycle began,
\* prints no transition and goes to sleep.
C4_FailedFetchChangesNothing ==
    [][MemberFetchFails =>
        /\ current_pool_members' = current_pool_members
        /\ current_logs' = start_logs
        /\ last_pool_states' = last_pool_states
        /\ events' = <<>>]_vars

\* The poller positions outside the fetch, diff and publication of a cycle.
SafePoints == {"idle", "check", "sleep", "sleep_err", "done"}

\* C5: when interactive_mode has finished, the poller is not in the middle
\* of a cycle.
C5_ConsoleWaitsForPoller ==
    cpc \in {"done", "exited"} => ppc \in SafePoints

\* C7: no outcome of a cycle ends the poller: it leaves the loop only with
\* the stop flag cleared, and while the flag is set a cycle is followed by
\* a sleep and a sleep by another cycle.
InCycle == ppc \in {"logs", "members", "diff"}
Sleeping == ppc \in {"sleep", "sleep_err"}
C7_CycleNeverFatal ==
    /\ [][(ppc # "done" /\ ppc' = "done") => (ppc = "check" /\ ~monitoring)]_vars
    /\ (InCycle ~> (Sleeping \/ ~monitoring))
    /\ (Sleeping ~> (InCycle \/ ~monitoring))

\* C7's case: a cycle has ended in an exception and the poller sleeps with
\* the stop flag still set.
C7_Witness == ppc = "sleep_err" /\ monitoring /\ current_logs # 0

\* C6: the stop flag is set when the poller is started, stays set while the
\* loop runs, is cleared by each of quit, exit, EOFError and
\* KeyboardInterrupt as the loop is left, is cleared by nothing else, and
\* stays cleared.
LoopLeft == cpc \in InTry /\ cpc' = "done"
PublishedLists ==
    {get_pool_members(r).v : r \in {q \in FewPoolReplies : q.kind = "ok"}}

\* C8: the figures of a rendered status or summary view (total, up count,
\* down count, the members listed as down) are those of one member list.
C8_ViewOfOneSnapshot ==
    (out.kind \in {"status", "summary"} /\ out.members) =>
        \E L \in PublishedLists :
            /\ out.total_members = Len(L)
            /\ out.up_members = CountState(L, Up)
            /\ out.down_members = CountState(L, Down)
            /\ out.kind = "summary" => out.listed = DownKeys(L)

\* C9: `pool <name>` answers "not found" exactly when the current snapshot
\* holds no member of pool <name>, and otherwise renders exactly the members
\* of that pool, for every pool name a snapshot can hold.
PoolCommandOf(name) ==
    /\ cpc = "loop" /\ cpc' = "loop" /\ ppc' = ppc
    /\ typed' = PoolLine(name)
C9_PoolRendersItsMembers ==
    [][\A name \in PoolNames :
          PoolCommandOf(name) =>
            /\ out'.kind \in {"not_found", "pool_details"}
            /\ out'.kind = "not_found"
                  <=> MembersOf(current_pool_members, name) = <<>>
            /\ out'.kind = "pool_details"
                  => out'.members = MembersOf(current_pool_members, name)]_vars

C11_NoPollerWithoutLogin ==
    /\ (cpc # "init" /\ ~TruthyToken(token)) =>
          /\ ~monitoring
          /\ ppc = "idle"
          /\ cpc \in {"done", "exited"}
          /\ typed = <<>> /\ out = NoOut
          /\ store = <<NoStates, <<>>, 0>>
    /\ ppc # "idle" => TruthyToken(token)

\* C11's case: the reply of the login held an empty token, and
\* interactive_mode has returned.
C11_Witness ==
    /\ cpc = "done" /\ token = Some(<<>>)
    /\ ~monitoring /\ ppc = "idle"

\* C12: a summary rendered on a non-empty snapshot reports the health of
\* that snapshot (100 * up / total, to one decimal) and lists exactly its
\* down members, each once, in snapshot order.
C12_SummaryOfTheSnapshot ==
    (out.kind = "summary" /\ out.members) =>
        \E L \in PublishedLists \ {<<>>} :
            /\ out.health = PercentTenths(CountState(L, Up), Len(L))
            /\ out.up_members = CountState(L, Up)
            /\ out.total_members = Len(L)
            /\ out.listed = DownKeys(L)

\* C13: when a cycle whose member fetch succeeded has completed, the
\* visible member list is the list fetched in that cycle, the empty list
\* included.
C13_VisibleIsFetched ==
    (ppc = "sleep" /\ pool_members.some)
        => current_pool_members = pool_members.v

\* C14: the poller looks at the stop flag only at the top of a cycle; a
\* cycle that has passed the check runs to its end (the sleep) even when the
\* flag is cleared meanwhile; and once the flag is cleared the poller starts
\* no cycle that was not already past the check, and terminates.
C14_CycleRunsToItsEnd ==
    /\ [][(ppc # "done" /\ ppc' = "done") => ppc = "check"]_vars
    /\ [][(ppc = "check" /\ ppc' = "logs") => monitoring]_vars
    /\ (InCycle /\ ~monitoring) ~> Sleeping
    /\ (ppc # "idle" /\ ~monitoring) ~> (ppc = "done")

\* C15: last_pool_states changes only in the diff of a cycle and only at the
\* keys of the list fetched in that cycle; a key absent from the fetch keeps
\* its recorded state and gets no event; no key ever leaves the map.
C15_OnlyFetchedKeysChange ==
    [][/\ DOMAIN last_pool_states \subseteq DOMAIN last_pool_states'
       /\ \A k \in DOMAIN last_pool_states' :
             (k \notin DOMAIN last_pool_states
                \/ last_pool_states'[k] # last_pool_states[k])
                  => (DiffStep /\ k \in KeysOf(pool_members.v))
       /\ DiffStep => EventKeys(events') \subseteq KeysOf(pool_members.v)]_vars

\* C15's case: a cycle has completed whose fetched list is not empty and
\* lacks a key that was recorded in an earlier cycle.
C15_Witness ==
    /\ ppc = "sleep" /\ pool_members.some /\ pool_members.v # <<>>
    /\ \E k \in DOMAIN last_pool_states :
          /\ k \notin KeysOf(pool_members.v)
          /\ k \notin KeysOf(current_pool_members)

\* The identities of a member list are unique.
UniqueKeys(members) ==
    \A i, j \in 1..Len(members) : Key(members[i]) = Key(members[j]) => i = j

\* C16: every STATE CHANGE printed reports a change between two consecutive
\* polls: its key was fetched in the immediately preceding cycle, its old
\* state is the one recorded then and its new state the one fetched now
\* (stated for fetched lists whose identities are unique).
C16_EventBetweenConsecutivePolls ==
    [][(DiffStep /\ UniqueKeys(pool_members.v)) =>
        \A i \in 1..Len(events') :
            /\ events'[i].key \in prev_keys
            /\ events'[i].old = last_pool_states[events'[i].key]
            /\ \E j \in 1..Len(pool_members.v) :
                  /\ Key(pool_members.v[j]) = events'[i].key
                  /\ pool_members.v[j].state = events'[i].new]_vars

\* The members a pool of a reply contributes: those its members request
\* returned, none when that request failed.
Contributed(pool) == IF pool.members.ok THEN pool.members.items ELSE <<>>
RECURSIVE Offset(_, _)
Offset(pools, p) ==
    IF p = 1 THEN 0
    ELSE Offset(pools, p - 1) + Len(Contributed(pools[p - 1]))

\* C17: when the pool list request succeeded, get_pool_members returns a
\* list (never None) that holds, in pool order, exactly the members of the
\* pools whose members request succeeded; when the pool list request failed
\* it returns None.
C17_PartialListNotFailure ==
    (ppc \in {"diff", "sleep"}) =>
        /\ pool_reply.kind = "fail" => pool_members = None
        /\ pool_reply.kind = "ok" =>
              LET pools == pool_reply.pools
              IN /\ pool_members.some
                 /\ Len(pool_members.v) = Offset(pools, Len(pools) + 1)
                 /\ \A p \in 1..Len(pools) :
                       \A i \in 1..Len(Contributed(pools[p])) :
                          LET rec == pool_members.v[Offset(pools, p) + i]
                          IN /\ rec.pool = pools[p].name
                             /\ rec.member = Contributed(pools[p])[i].name
                             /\ rec.state =
                                  Get(Contributed(pools[p])[i].state, Unknown)

\* C17's case: the pool list held two pools, the members request of the
\* first failed, and the list returned holds the members of the second.
C17_Witness ==
    /\ ppc = "diff"
    /\ pool_reply.kind = "ok" /\ Len(pool_reply.pools) = 2
    /\ ~pool_reply.pools[1].members.ok
    /\ pool_members.some /\ Len(pool_members.v) = 1

\* A step of the console (the main thread), and a step of the poller.
ConsoleStep == console_vars' # console_vars
PollerStep == ppc # "idle" /\ ppc' # ppc

\* C18: current_pool_members, current_logs and last_pool_states change only
\* in steps of the poller; no step of the console changes any of them; and
\* of the variables the two threads share, the console writes the stop flag
\* only, which the poller never writes.
C18_PollerIsTheOnlyWriter ==
    [][/\ store' # store => (PollerStep /\ ~ConsoleStep)
       /\ ConsoleStep => store' = store
       /\ monitoring' # monitoring => (ConsoleStep /\ ~PollerStep)]_vars

\* C18's case: with members and logs in the store, `logs` has been
\* rendered and the loop waits for the next line.
C18_Witness ==
    /\ cpc = "loop" /\ Command(typed) = Logs /\ out.kind = "logs"
    /\ current_pool_members # <<>> /\ current_logs # 0
    /\ last_pool_states # NoStates

====
